---- MODULE Spec2Model ----
(***************************************************************************)
(* Model of the console phone book (src/main.py): the Directory singleton  *)
(* (the in-memory table `data`, the counter `next_id`), its CSV storage    *)
(* (records.csv) and the calls main() makes: Directory(), print_records,   *)
(* add_record, search_records and edit_record. main() catches no           *)
(* exception, so a call that raises ends the run (Spec). SpecCaller is the *)
(* same Directory used by a caller that catches what a method raises and   *)
(* goes on calling.                                                        *)
(*                                                                         *)
(* Text is modelled as a sequence of characters, one token per character:  *)
(* "0" "1" "2" are decimal digits, "sup2" is U+00B2 SUPERSCRIPT TWO (a     *)
(* character for which Python's str.isdigit() is true although it is not a *)
(* decimal digit), " " is a space, "+" a plus sign, "." a full stop,       *)
(* "a" "b" letters.                                                        *)
(***************************************************************************)
EXTENDS Integers, Sequences, FiniteSets, TLC

VARIABLES
    instance,   \* Directory._instance: "None", "partial" (created, load raised) or "ready"
    data,       \* Directory.data: the rows of the DataFrame, in index order
    next_id,    \* Directory.next_id
    file,       \* the content of records.csv
    last,       \* the last call: what it was, what it printed, how often it prompted and saved
    origin,     \* per cell of data: how the call that gave it its current value ended
    loaded,     \* the table load() returned at construction
    okAdds,     \* number of add_record calls that ran to "Запись успешно добавлена."
    edits,      \* number of edit_record calls that found their record
    running,    \* the caller has not been left by an exception
    printed,    \* the rows the last call printed
    loads,      \* number of data_storage.load calls so far
    catches,    \* the caller catches what a method of the Directory raises
    typed       \* the ID and the six texts typed into the last edit_record that found its record

vars == <<instance, data, next_id, file, last, origin, loaded, okAdds, edits, running,
          printed, loads, catches, typed>>

----------------------------------------------------------------------------
(* Bounds of the model. *)

\* add_record is explored while the table holds fewer rows than this.
MaxRecords == 2

\* edit_record calls that find their record are explored up to this number.
MaxEdits == 1

----------------------------------------------------------------------------
(* The schema. *)

\* The non-ID columns, in schema order.
DataColumns == <<"Surname", "Name", "Patronymic", "Organization", "WorkPhone", "MobilePhone">>

\* The full header of the table.
Columns == <<"ID">> \o DataColumns

\* The two columns edit_record and add_record validate as phone numbers.
PhoneColumns == {"WorkPhone", "MobilePhone"}

DataColumnSet == {DataColumns[i] : i \in 1..Len(DataColumns)}

----------------------------------------------------------------------------
(* Characters and the str methods the program uses. *)

DecimalDigits == {"0", "1", "2"}

\* Characters c with c.isdigit(): the decimal digits and the digit-like
\* characters of Unicode (superscripts and the like).
IsDigitChars == DecimalDigits \cup {"sup2"}

Whitespace == {" "}

RECURSIVE lstrip(_)
lstrip(s) ==
    IF s = <<>> THEN s
    ELSE IF Head(s) \in Whitespace THEN lstrip(Tail(s)) ELSE s

RECURSIVE rstrip(_)
rstrip(s) ==
    IF s = <<>> THEN s
    ELSE IF s[Len(s)] \in Whitespace THEN rstrip(SubSeq(s, 1, Len(s) - 1)) ELSE s

\* str.strip()
strip(s) == rstrip(lstrip(s))

\* str.isdigit(): non-empty and every character is a digit character.
isdigit(s) == Len(s) > 0 /\ \A i \in 1..Len(s) : s[i] \in IsDigitChars

\* Directory.validate_phone
validate_phone(phone) == isdigit(phone)

----------------------------------------------------------------------------
(* Integers as text (the ID column of records.csv). *)

DigitChar == <<"0", "1", "2", "3", "4", "5", "6", "7", "8", "9">>

DigitVal(c) == CHOOSE d \in 0..9 : DigitChar[d + 1] = c

RECURSIVE IntToStr(_)
IntToStr(n) ==
    IF n < 10 THEN <<DigitChar[n + 1]>>
    ELSE Append(IntToStr(n \div 10), DigitChar[(n % 10) + 1])

RECURSIVE StrToInt(_)
StrToInt(s) ==
    IF Len(s) = 1 THEN DigitVal(s[1])
    ELSE 10 * StrToInt(SubSeq(s, 1, Len(s) - 1)) + DigitVal(s[Len(s)])

\* Text the CSV parser reads as an integer: one or more ASCII digits.
IsIntText(s) == Len(s) > 0 /\ \A i \in 1..Len(s) : s[i] \in {DigitChar[k] : k \in 1..10}

----------------------------------------------------------------------------
(* records.csv and CSVDataStorage. *)

ColumnSet == {Columns[i] : i \in 1..Len(Columns)}

\* The file does not exist.
NoFile == [kind |-> "absent", header |-> <<>>, rows |-> <<>>]

\* The file exists and holds no bytes.
EmptyFile == [kind |-> "empty", header |-> <<>>, rows |-> <<>>]

\* One line of the file for one row of the table: every cell as text.
CsvRow(row) == [c \in ColumnSet |-> IF c = "ID" THEN IntToStr(row.ID) ELSE row[c]]

\* DataFrame.to_csv(file_name, index=False): the header and one line per row.
\* (The texts of the model hold no comma, quote or line break, so quoting
\* never applies.)
to_csv(d) == [kind |-> "csv", header |-> Columns, rows |-> [i \in 1..Len(d) |-> CsvRow(d[i])]]

\* pandas.read_csv's type inference for one column: a column all of whose
\* cells are integer text becomes an integer column.
IsIntColumn(rows, c) == rows # <<>> /\ \A i \in 1..Len(rows) : IsIntText(rows[i][c])

\* A cell as the loaded table holds it, written as the text str() gives:
\* an integer column loses leading zeros.
LoadedCell(rows, i, c) ==
    IF IsIntColumn(rows, c) THEN IntToStr(StrToInt(rows[i][c])) ELSE rows[i][c]

\* pandas.read_csv on a file with a header (the files of the model hold
\* integer IDs): the rows of the resulting DataFrame.
read_csv(f) ==
    [i \in 1..Len(f.rows) |->
        [c \in ColumnSet |->
            IF c = "ID" THEN StrToInt(f.rows[i][c]) ELSE LoadedCell(f.rows, i, c)]]

\* CSVDataStorage.load: read_csv, an empty table when the file is absent
\* (FileNotFoundError); any other error of read_csv (EmptyDataError on a
\* file without bytes) is not caught.
load(f) ==
    CASE f.kind = "absent" -> [raised |-> FALSE, data |-> <<>>]
      [] f.kind = "empty"  -> [raised |-> TRUE,  data |-> <<>>]
      [] OTHER             -> [raised |-> FALSE, data |-> read_csv(f)]

\* What a save can do: write the file, or fail with an I/O error that
\* leaves the file as it was.
SaveOutcomes == {"written", "refused"}

\* A save that never writes.
save_Stale(f, d, outcome) == f

\* CSVDataStorage.save: the file after data.to_csv(...) with that outcome.
save(f, d, outcome) ==
    IF outcome = "written" THEN to_csv(d) ELSE f

----------------------------------------------------------------------------
(* Inputs. *)

\* A table row.
Row(id, surname, name, patronymic, organization, work, mobile) ==
    [ID |-> id, Surname |-> surname, Name |-> name, Patronymic |-> patronymic,
     Organization |-> organization, WorkPhone |-> work, MobilePhone |-> mobile]

\* What the user types for the six non-ID columns.
Fields(surname, name, patronymic, organization, work, mobile) ==
    [Surname |-> surname, Name |-> name, Patronymic |-> patronymic,
     Organization |-> organization, WorkPhone |-> work, MobilePhone |-> mobile]

\* A row written earlier; its mobile phone has a leading zero.
StoredRow(id) == Row(id, <<"a">>, <<"a">>, <<"a">>, <<"a">>, <<"1">>, <<"0", "1">>)

\* The content of records.csv when the program starts: no file, a file
\* without bytes, a header alone, one row with ID 1, one row with ID 2 (a
\* file edited by hand).
InitialFiles ==
    { NoFile,
      EmptyFile,
      to_csv(<<>>),
      to_csv(<<StoredRow(1)>>),
      to_csv(<<StoredRow(2)>>) }

\* Texts typed at edit_record's prompt for a name or organization column,
\* and for a phone column.
NameTexts == {<<" ">>, <<"b">>}

PhoneTexts == {<<"2">>, <<"0", "0">>, <<"sup2">>, <<"+", "2">>}

TextsOf(c) == IF c \in PhoneColumns THEN PhoneTexts ELSE NameTexts

ValidFields == Fields(<<"b">>, <<"b">>, <<"b">>, <<"b">>, <<"2">>, <<"2">>)

NoFields == Fields(<<>>, <<>>, <<>>, <<>>, <<>>, <<>>)

\* Texts that make add_record refuse a record when typed into a column.
BadTexts(c) == {<<>>, <<" ">>} \cup (IF c \in PhoneColumns THEN {<<"+", "2">>} ELSE {})

\* What is typed at add_record's prompts: a valid record, that record with
\* one column replaced by a text add_record refuses, and that record with
\* a superscript digit as its mobile phone.
AddInputs ==
    {ValidFields, [ValidFields EXCEPT !.MobilePhone = <<"sup2">>]}
    \cup UNION {{[ValidFields EXCEPT ![c] = t] : t \in BadTexts(c)} : c \in DataColumnSet}

\* What is typed at edit_record's prompts: nothing; a text for one column;
\* a surname together with an invalid mobile phone; a valid and an invalid
\* phone, in either order.
EditInputs ==
    {NoFields}
    \cup UNION {{[NoFields EXCEPT ![c] = t] : t \in TextsOf(c)} : c \in DataColumnSet}
    \cup {[NoFields EXCEPT !.Surname = n, !.MobilePhone = <<"+", "2">>] : n \in NameTexts}
    \cup {[NoFields EXCEPT !.WorkPhone = <<"2">>, !.MobilePhone = <<"+", "2">>],
          [NoFields EXCEPT !.WorkPhone = <<"+", "2">>, !.MobilePhone = <<"2">>]}

\* Keywords typed at "Поиск по ключевому слову".
Keywords == {<<>>, <<"b">>, <<".">>, <<"+">>}

\* IDs typed at "Введите ID записи для редактирования".
EditIds == 1..(MaxRecords + 1)

----------------------------------------------------------------------------
(* The Directory. *)

\* What a call left behind: the operation, the message it ended with
\* ("Ok", "Rejected", "NotFound", "Printed", or "Raised" for an exception
\* that left the method), the number of input() prompts it issued, the
\* number of data_storage.save calls it made and the number of cells it
\* assigned.
Call(op, result, prompts, saves, applied) ==
    [op |-> op, result |-> result, prompts |-> prompts, saves |-> saves, applied |-> applied]

\* The origin of every cell of a row.
Cells(tag) == [c \in DataColumnSet |-> tag]

\* The origins o of the table d after a call that ended Ok supplied
\* `texts`: a value a rejected call left behind counts as supplied by the
\* Ok call when that call supplied the same text.
Cleared(o, d, texts) ==
    [i \in 1..Len(o) |->
        [c \in DataColumnSet |->
            IF o[i][c] = "rejected" /\ d[i][c] \in texts THEN "ok" ELSE o[i][c]]]

\* A counter that starts at the number of loaded rows.
first_id_Count(d) == Len(d)

\* Directory.__new__: next_id for a freshly loaded table.
first_id(d) == Len(d) + 1

\* A new row that takes the ID after the counter's value.
new_row_Ahead(id, record) == [c \in ColumnSet |-> IF c = "ID" THEN id + 1 ELSE record[c]]

\* Directory.add_record: the row appended for the typed fields.
new_row(id, record) == [c \in ColumnSet |-> IF c = "ID" THEN id ELSE record[c]]

\* Directory.add_record: some value is blank after strip().
any_blank(record) == \E c \in DataColumnSet : strip(record[c]) = <<>>

\* Directory.add_record: one of the two phone numbers is invalid.
phones_invalid(record) ==
    ~validate_phone(record["WorkPhone"]) \/ ~validate_phone(record["MobilePhone"])

\* A lookup by row position instead of by ID.
index_of_Position(d, record_id) == {i \in 1..Len(d) : i = record_id}

\* Directory.edit_record: self.data[self.data["ID"] == record_id].index
index_of(d, record_id) == {i \in 1..Len(d) : d[i].ID = record_id}

\* The last of the rows with that ID.
first_index_Last(d, record_id) ==
    CHOOSE i \in index_of(d, record_id) : \A j \in index_of(d, record_id) : i >= j

\* index[0]
first_index(d, record_id) ==
    CHOOSE i \in index_of(d, record_id) : \A j \in index_of(d, record_id) : i <= j

\* A loop that assigns empty values too.
RECURSIVE edit_loop_NoSkip(_, _, _)
edit_loop_NoSkip(row, record, k) ==
    IF k > Len(DataColumns) THEN [row |-> row, failed |-> 0]
    ELSE LET key == DataColumns[k]
             value == record[key]
         IN  IF key \in PhoneColumns /\ value # <<>> /\ ~validate_phone(value)
             THEN [row |-> row, failed |-> k]
             ELSE edit_loop_NoSkip([row EXCEPT ![key] = value], record, k + 1)

\* A loop that gives back the row it started from when a phone number is
\* invalid.
RECURSIVE edit_loop_Staged(_, _, _, _)
edit_loop_Staged(start, row, record, k) ==
    IF k > Len(DataColumns) THEN [row |-> row, failed |-> 0]
    ELSE LET key == DataColumns[k]
             value == record[key]
         IN  IF value # <<>>
             THEN IF key \in PhoneColumns /\ ~validate_phone(value)
                  THEN [row |-> start, failed |-> k]
                  ELSE edit_loop_Staged(start, [row EXCEPT ![key] = value], record, k + 1)
             ELSE edit_loop_Staged(start, row, record, k + 1)

edit_loop_Atomic(row, record, k) == edit_loop_Staged(row, row, record, k)

\* Directory.edit_record: the loop over the typed values from column k on.
\* An empty value is skipped; an invalid phone number returns at once, with
\* the assignments made so far kept; any other value is assigned.
\* failed is the position of the column the loop returned at, 0 if none.
\* (A typed text assigned into a column that was loaded as integers is
\* stored as that text: the column is upcast to object.)
RECURSIVE edit_loop(_, _, _)
edit_loop(row, record, k) ==
    IF k > Len(DataColumns) THEN [row |-> row, failed |-> 0]
    ELSE LET key == DataColumns[k]
             value == record[key]
         IN  IF value # <<>>
             THEN IF key \in PhoneColumns /\ ~validate_phone(value)
                  THEN [row |-> row, failed |-> k]
                  ELSE edit_loop([row EXCEPT ![key] = value], record, k + 1)
             ELSE edit_loop(row, record, k + 1)

\* The columns an edit assigned: those with a typed value before the
\* column the loop returned at.
assigned(record, failed) ==
    {DataColumns[k] : k \in {j \in 1..Len(DataColumns) :
                                /\ record[DataColumns[j]] # <<>>
                                /\ (failed = 0 \/ j < failed)}}

\* Before Directory() is first called: no instance (data and next_id do
\* not exist yet and hold placeholders), records.csv in one of its initial
\* contents.
Start(handler) ==
    /\ instance = "None"
    /\ file \in InitialFiles
    /\ data = <<>>
    /\ next_id = 0
    /\ last = Call("none", "none", 0, 0, 0)
    /\ origin = <<>>
    /\ loaded = <<>>
    /\ okAdds = 0
    /\ edits = 0
    /\ running = TRUE
    /\ printed = <<>>
    /\ loads = 0
    /\ catches = handler
    /\ typed = <<>>

\* main(): no try/except around the menu loop.
Init == Start(FALSE)

\* A caller with a try/except around each method call.
InitCaller == Start(TRUE)

\* A Directory() that loads the table on every call.
new_Reloading ==
    /\ running
    /\ LET got == load(file)
       IN  IF got.raised
           THEN /\ instance' = "partial"
                /\ last' = Call("new", "Raised", 0, 0, 0)
                /\ running' = FALSE
                /\ UNCHANGED <<data, next_id, origin, loaded>>
           ELSE /\ instance' = "ready"
                /\ data' = got.data
                /\ next_id' = first_id(got.data)
                /\ origin' = [i \in 1..Len(got.data) |-> Cells("loaded")]
                /\ loaded' = got.data
                /\ last' = Call(IF instance = "None" THEN "new" ELSE "again", "Ok", 0, 0, 0)
                /\ UNCHANGED running
    /\ loads' = loads + 1
    /\ printed' = <<>>
    /\ typed' = <<>>
    /\ UNCHANGED <<file, okAdds, edits, catches>>

\* Directory(): the first call creates the instance and loads the table;
\* every later call returns the instance as it is.
new ==
    /\ running
    /\ IF instance = "None"
       THEN LET got == load(file)
            IN  IF got.raised
                THEN /\ instance' = "partial"
                     /\ last' = Call("new", "Raised", 0, 0, 0)
                     /\ running' = FALSE
                     /\ UNCHANGED <<data, next_id, origin, loaded>>
                ELSE /\ instance' = "ready"
                     /\ data' = got.data
                     /\ next_id' = first_id(got.data)
                     /\ origin' = [i \in 1..Len(got.data) |-> Cells("loaded")]
                     /\ loaded' = got.data
                     /\ last' = Call("new", "Ok", 0, 0, 0)
                     /\ UNCHANGED running
       ELSE /\ last' = Call("again", "Ok", 0, 0, 0)
            /\ UNCHANGED <<instance, data, next_id, origin, loaded, running>>
    /\ loads' = IF instance = "None" THEN loads + 1 ELSE loads
    /\ printed' = <<>>
    /\ typed' = <<>>
    /\ UNCHANGED <<file, okAdds, edits, catches>>

\* Directory.print_records
print_records ==
    /\ running /\ instance = "ready"
    /\ last' = Call("list", "Printed", 0, 0, 0)
    /\ printed' = data
    /\ typed' = <<>>
    /\ UNCHANGED <<instance, data, next_id, file, origin, loaded, okAdds, edits, running,
                   loads, catches>>

\* str.contains(keyword) compiles the keyword as a regular expression:
\* a pattern that starts with the quantifier "+" does not compile (re.error).
re_error(keyword) == keyword # <<>> /\ Head(keyword) = "+"

\* One character of a pattern against one character of a text: "." stands
\* for any character, every other character of the alphabet for itself.
atom_matches(atom, ch) == atom = "." \/ atom = ch

\* re.match of the pattern p at the start of the text s. An atom followed
\* by "+" takes one or more characters.
RECURSIVE match_here(_, _)
match_here(p, s) ==
    IF p = <<>> THEN TRUE
    ELSE IF Len(p) >= 2 /\ p[2] = "+"
         THEN \E n \in 1..Len(s) :
                 /\ \A k \in 1..n : atom_matches(p[1], s[k])
                 /\ match_here(SubSeq(p, 3, Len(p)), SubSeq(s, n + 1, Len(s)))
         ELSE /\ s # <<>>
              /\ atom_matches(p[1], s[1])
              /\ match_here(Tail(p), Tail(s))

\* Series.str.contains(pat) for one cell: re.search, the pattern matched
\* at any position of the text.
contains(s, pat) == \E i \in 1..(Len(s) + 1) : match_here(pat, SubSeq(s, i, Len(s)))

\* row.astype(str): the ID as decimal text, every other cell as it is.
astype_str(row) == [c \in ColumnSet |-> IF c = "ID" THEN IntToStr(row.ID) ELSE row[c]]

\* The lambda of search_records: some cell of the row contains the keyword.
row_matches(row, keyword) == \E c \in ColumnSet : contains(astype_str(row)[c], keyword)

\* self.data[mask]: the rows the lambda is true for, in index order.
matching_rows(d, keyword) == SelectSeq(d, LAMBDA row : row_matches(row, keyword))

\* A search_records that writes the rows it found to records.csv.
search_records_Saving(keyword) ==
    /\ running /\ instance = "ready"
    /\ \E raises \in {re_error(keyword) /\ data # <<>>, re_error(keyword)} :
          /\ last' = Call("search", IF raises THEN "Raised" ELSE "Printed", 0, 0, 0)
          /\ printed' = IF raises THEN <<>> ELSE matching_rows(data, keyword)
          /\ file' = IF raises THEN file ELSE to_csv(printed')
          /\ running' = (~raises \/ catches)
    /\ typed' = <<>>
    /\ UNCHANGED <<instance, data, next_id, origin, loaded, okAdds, edits, loads, catches>>

\* Directory.search_records(keyword): prints the matching rows and changes
\* nothing. A keyword that does not compile raises out of the method when
\* a row is searched; on a table without rows pandas evaluates the lambda
\* only on a probe whose exceptions it may swallow, so either outcome is
\* possible there.
search_records(keyword) ==
    /\ running /\ instance = "ready"
    /\ \E raises \in {re_error(keyword) /\ data # <<>>, re_error(keyword)} :
          /\ last' = Call("search", IF raises THEN "Raised" ELSE "Printed", 0, 0, 0)
          /\ printed' = IF raises THEN <<>> ELSE matching_rows(data, keyword)
          /\ running' = (~raises \/ catches)
    /\ typed' = <<>>
    /\ UNCHANGED <<instance, data, next_id, file, origin, loaded, okAdds, edits,
                   loads, catches>>

\* Directory.add_record(record)
add_record(record) ==
    /\ running /\ instance = "ready"
    /\ Len(data) < MaxRecords
    /\ IF any_blank(record) \/ phones_invalid(record)
       THEN /\ last' = Call("add", "Rejected", 0, 0, 0)
            /\ UNCHANGED <<data, next_id, file, origin, okAdds, running>>
       ELSE \E outcome \in SaveOutcomes :
            /\ data' = Append(data, new_row(next_id, record))
            /\ file' = save(file, data', outcome)
            /\ IF outcome = "written"
               THEN /\ next_id' = next_id + 1
                    /\ okAdds' = okAdds + 1
                    /\ origin' = Append(Cleared(origin, data, {record[c] : c \in DataColumnSet}),
                                         Cells("ok"))
                    /\ last' = Call("add", "Ok", 0, 1, Len(DataColumns))
                    /\ UNCHANGED running
               ELSE /\ origin' = Append(origin, Cells("raised"))
                    /\ last' = Call("add", "Raised", 0, 1, Len(DataColumns))
                    /\ running' = catches
                    /\ UNCHANGED <<next_id, okAdds>>
    /\ printed' = <<>>
    /\ typed' = <<>>
    /\ UNCHANGED <<instance, loaded, edits, loads, catches>>

\* Directory.edit_record(record_id) for an ID no row has.
edit_missing(record_id) ==
    /\ running /\ instance = "ready"
    /\ index_of(data, record_id) = {}
    /\ last' = Call("edit", "NotFound", 0, 0, 0)
    /\ printed' = <<>>
    /\ typed' = <<>>
    /\ UNCHANGED <<instance, data, next_id, file, origin, loaded, okAdds, edits, running,
                   loads, catches>>

\* Directory.edit_record(record_id) for an ID some row has, with `record`
\* typed at the six prompts.
edit_found(record_id, record) ==
    /\ running /\ instance = "ready"
    /\ index_of(data, record_id) # {}
    /\ edits < MaxEdits
    /\ edits' = edits + 1
    /\ LET index == first_index(data, record_id)
           done == edit_loop(data[index], record, 1)
           cols == assigned(record, done.failed)
           changed == {c \in cols : done.row[c] # data[index][c]}
           tagged(tag) == [origin EXCEPT ![index] =
                              [c \in DataColumnSet |->
                                  IF c \in (IF tag = "rejected" THEN changed ELSE cols)
                                  THEN tag ELSE @[c]]]
       IN  /\ data' = [data EXCEPT ![index] = done.row]
           /\ IF done.failed # 0
              THEN /\ origin' = tagged("rejected")
                   /\ last' = Call("edit", "Rejected", Len(DataColumns), 0, Cardinality(cols))
                   /\ UNCHANGED <<file, running>>
              ELSE \E outcome \in SaveOutcomes :
                   /\ file' = save(file, data', outcome)
                   /\ IF outcome = "written"
                      THEN /\ origin' = Cleared(tagged("ok"), data', {record[c] : c \in cols})
                           /\ last' = Call("edit", "Ok", Len(DataColumns), 1, Cardinality(cols))
                           /\ UNCHANGED running
                      ELSE /\ origin' = tagged("raised")
                           /\ last' = Call("edit", "Raised", Len(DataColumns), 1, Cardinality(cols))
                           /\ running' = catches
    /\ printed' = <<>>
    /\ typed' = <<record_id, record>>
    /\ UNCHANGED <<instance, next_id, loaded, okAdds, loads, catches>>

\* Directory.edit_record(record_id)
edit_record(record_id) ==
    \/ edit_missing(record_id)
    \/ \E record \in EditInputs : edit_found(record_id, record)

Next ==
    \/ new
    \/ print_records
    \/ \E keyword \in Keywords : search_records(keyword)
    \/ \E record \in AddInputs : add_record(record)
    \/ \E record_id \in EditIds : edit_record(record_id)

Spec == Init /\ [][Next]_vars

SpecCaller == InitCaller /\ [][Next]_vars

----------------------------------------------------------------------------
(* Vocabulary of the properties. *)

\* No two rows of d have the same ID.
DistinctIds(d) == \A i, j \in 1..Len(d) : i # j => d[i].ID # d[j].ID

\* s is empty or holds nothing but whitespace.
Blank(s) == \A k \in 1..Len(s) : s[k] \in Whitespace

\* s consists solely of the decimal digits 0-9.
DecimalOnly(s) == \A k \in 1..Len(s) : s[k] \in DecimalDigits

\* The cells of data written by add_record or edit_record.
WrittenCells == {<<i, c>> \in (1..Len(data)) \X DataColumnSet : origin[i][c] # "loaded"}

\* The file holds exactly the table d: the full header, the same rows in
\* the same order, every cell with the same text.
FileHolds(f, d) ==
    /\ f.kind = "csv"
    /\ f.header = Columns
    /\ Len(f.rows) = Len(d)
    /\ \A i \in 1..Len(d) :
          /\ f.rows[i]["ID"] = IntToStr(d[i].ID)
          /\ \A c \in DataColumnSet : f.rows[i][c] = d[i][c]

\* The last call was add_record or edit_record and ended with its success message.
LastOk == last.op \in {"add", "edit"} /\ last.result = "Ok"

----------------------------------------------------------------------------
(* C1. No two records of the in-memory collection have the same ID, in any *)
(* state reached by add_record and edit_record calls on a store            *)
(* constructed from a loaded collection whose IDs are pairwise distinct.   *)
C1_UniqueIds == (instance = "ready" /\ DistinctIds(loaded)) => DistinctIds(data)

(* C2. From an empty store the i-th add_record call that succeeds creates  *)
(* the record with ID i; from a store with K loaded records the first      *)
(* add_record call that succeeds creates the record with ID K+1.           *)
C2_IdAssignment ==
    (last.op = "add" /\ last.result = "Ok") =>
        /\ Len(loaded) = 0 => data[Len(data)].ID = okAdds
        /\ okAdds = 1 => data[Len(data)].ID = Len(loaded) + 1

C2_SecondAddFromEmpty ==
    /\ last.op = "add" /\ last.result = "Ok"
    /\ loaded = <<>> /\ okAdds = 2 /\ Len(data) = 2

(* C3. An add_record call in which a field is empty or whitespace-only, or *)
(* in which a phone field holds a character that is not a digit 0-9, is    *)
(* rejected and changes nothing: the table, next_id and the file stay as   *)
(* they were and save is not called.                                       *)
C3_Refused(record) ==
    \/ \E c \in DataColumnSet : Blank(record[c])
    \/ \E c \in PhoneColumns : ~DecimalOnly(record[c])

C3_RejectedAddChangesNothing ==
    [][\A record \in AddInputs :
          (C3_Refused(record) /\ add_record(record)) =>
              /\ last'.result = "Rejected"
              /\ last'.saves = 0
              /\ UNCHANGED <<data, next_id, file>>]_vars

(* C4. In every snapshot passed to save, every non-ID field of every       *)
(* record created or modified by add_record or edit_record is non-empty    *)
(* and not whitespace-only.                                                *)
C4_SavedFieldsNotBlank ==
    last.saves = 1 => \A cell \in WrittenCells : ~Blank(data[cell[1]][cell[2]])

(* C5. In every snapshot passed to save, the work phone and the mobile     *)
(* phone of every record created or modified by add_record or edit_record  *)
(* consist solely of the decimal digits 0-9.                               *)
C5_SavedPhonesDecimal ==
    last.saves = 1 =>
        \A cell \in WrittenCells :
            cell[2] \in PhoneColumns =>
                /\ data[cell[1]][cell[2]] # <<>>
                /\ DecimalOnly(data[cell[1]][cell[2]])

(* C6. No value that a rejected add_record or edit_record call put into a  *)
(* field is in a snapshot written by a later save, unless a later call     *)
(* that ended Ok supplied that value itself.                               *)
C6_RejectedNeverPersisted ==
    (LastOk /\ last.saves = 1) =>
        \A i \in 1..Len(data) : \A c \in DataColumnSet :
            origin[i][c] = "rejected" => file.rows[i][c] # data[i][c]

(* C7. After every add_record or edit_record call that ends Ok the file    *)
(* holds the full in-memory table: same records, same field values, same   *)
(* order.                                                                  *)
C7_FileHoldsTable == LastOk => FileHolds(file, data)

C7_OkEditWritten ==
    /\ last.op = "edit" /\ last.result = "Ok" /\ last.applied > 0
    /\ Len(data) = 2

(* C8. edit_record with an ID no record has ends NotFound and changes      *)
(* nothing: it prompts for no value, the table and next_id stay as they    *)
(* were and save is not called.                                            *)
C8_NotFoundChangesNothing ==
    [][\A record_id \in EditIds :
          ((\A i \in 1..Len(data) : data[i].ID # record_id) /\ edit_record(record_id)) =>
              /\ last'.result = "NotFound"
              /\ last'.prompts = 0
              /\ last'.saves = 0
              /\ UNCHANGED <<data, next_id, file>>]_vars

C8_NotFoundAmongRecords ==
    /\ last.op = "edit" /\ last.result = "NotFound"
    /\ Len(data) > 0

(* C9. edit_record on an existing ID with the empty string typed for every *)
(* column leaves the record and the whole table unchanged and still calls  *)
(* save exactly once, with that unchanged table.                           *)
C9_EmptyEditSavesUnchanged ==
    [][(last'.op = "edit" /\ last'.result # "NotFound") =>
          \A record_id \in EditIds :
              edit_found(record_id, NoFields) =>
                  /\ data' = data
                  /\ last'.saves = 1
                  /\ last'.result = "Ok" => FileHolds(file', data)]_vars

C9_EmptyEditDone ==
    /\ last.op = "edit" /\ last.result = "Ok" /\ last.applied = 0
    /\ last.saves = 1 /\ last.prompts = Len(DataColumns)
    /\ Len(data) > 0

(* C10. When edit_record is rejected for an invalid phone candidate, the   *)
(* fields before the failing column (in schema order) that had a non-empty *)
(* candidate hold their new values in memory, the failing field and every  *)
(* later field keep their previous values, and save is not called: the     *)
(* file is not rewritten.                                                  *)
C10_Failing(record) ==
    {k \in 1..Len(DataColumns) :
        /\ DataColumns[k] \in PhoneColumns
        /\ record[DataColumns[k]] # <<>>
        /\ ~validate_phone(record[DataColumns[k]])}

C10_FirstFailing(record) ==
    CHOOSE k \in C10_Failing(record) : \A j \in C10_Failing(record) : k <= j

\* The edits with an invalid phone candidate.
C10_FailingInputs == {record \in EditInputs : C10_Failing(record) # {}}

C10_Target(record_id) ==
    CHOOSE i \in 1..Len(data) :
        data[i].ID = record_id /\ \A j \in 1..(i - 1) : data[j].ID # record_id

C10_PartialApply ==
    [][(last'.op = "edit" /\ last'.result = "Rejected") =>
          \A record_id \in EditIds : \A record \in C10_FailingInputs :
              edit_found(record_id, record) =>
                  LET i == C10_Target(record_id)
                      k == C10_FirstFailing(record)
                  IN  /\ last'.saves = 0
                      /\ file' = file
                      /\ \A j \in 1..Len(DataColumns) :
                            data'[i][DataColumns[j]] =
                                IF j < k /\ record[DataColumns[j]] # <<>>
                                THEN record[DataColumns[j]]
                                ELSE data[i][DataColumns[j]]]_vars

C10_WorkPhoneChangedUnsaved ==
    /\ last.op = "edit" /\ last.result = "Rejected" /\ last.applied = 1
    /\ Len(data) = 1 /\ Len(loaded) = 1
    /\ data[1].WorkPhone = <<"2">> /\ loaded[1].WorkPhone # <<"2">>
    /\ data[1].MobilePhone = loaded[1].MobilePhone
    /\ file.rows[1]["WorkPhone"] = loaded[1].WorkPhone

----------------------------------------------------------------------------
(* C11. search_records(k) prints, in the order of the table, exactly the   *)
(* rows of which some cell, taken as text (the ID as decimal text), has k  *)
(* as a literal substring, for every keyword k, "." and "+" included; the  *)
(* empty keyword prints every row. Stated for a table that has rows.       *)

\* pat occurs in s character for character.
Substring(s, pat) ==
    \E i \in 0..(Len(s) - Len(pat)) : SubSeq(s, i + 1, i + Len(pat)) = pat

\* The rows of d with a cell whose text has keyword as a substring.
LiteralMatches(d, keyword) ==
    SelectSeq(d, LAMBDA row : \E c \in ColumnSet : Substring(astype_str(row)[c], keyword))

C11_SearchIsLiteral ==
    [][(last'.op = "search" /\ data # <<>>) =>
          \A keyword \in Keywords :
              search_records(keyword) =>
                  /\ last'.result = "Printed"
                  /\ printed' = LiteralMatches(data, keyword)
                  /\ (keyword = <<>> => printed' = data)]_vars

----------------------------------------------------------------------------
(* C12. print_records and search_records, whatever the keyword and however *)
(* the call ends, leave the table, next_id and records.csv as they were    *)
(* and call neither load nor save.                                         *)

C12_ReadOnly ==
    [][last'.op \in {"list", "search"} =>
          /\ UNCHANGED <<data, next_id, file, instance>>
          /\ loads' = loads
          /\ last'.saves = 0]_vars

\* A search printed some but not all rows of a table that differs from
\* what records.csv was loaded as.
C12_SearchPrintedSome ==
    /\ last.op = "search"
    /\ printed # <<>>
    /\ printed # data
    /\ okAdds > 0

----------------------------------------------------------------------------
(* C13. After every add_record or edit_record that ended with its success  *)
(* message, a fresh Directory loading records.csv gets the table the       *)
(* running one holds: the same rows in the same order, every cell with the *)
(* same text, a phone with leading zeros included.                         *)

C13_RoundTrip ==
    LastOk => /\ file.header = Columns
              /\ ~load(file).raised
              /\ load(file).data = data

----------------------------------------------------------------------------
(* C14. When records.csv does not exist, and also when it exists without   *)
(* content, the first Directory() raises nothing and leaves a Directory    *)
(* with an empty table and next_id = 1.                                    *)

\* records.csv as the program found it held no prior data.
NoPriorData(f) == f.kind \in {"absent", "empty"}

C14_NoPriorDataLoadsEmpty ==
    [][(instance = "None" /\ NoPriorData(file) /\ new) =>
          /\ last'.result = "Ok"
          /\ instance' = "ready"
          /\ data' = <<>>
          /\ next_id' = 1]_vars

----------------------------------------------------------------------------
(* C15. An add_record that ends with its success message appends exactly   *)
(* one row at the end, with the value next_id had before the call as its   *)
(* ID and the six typed values, leaves every earlier row as it was and     *)
(* where it was, and increases next_id by exactly 1; so the table always   *)
(* is the loaded rows followed by the added rows in the order of the adds. *)

\* The rows of records.csv come first, then one row per add, numbered in
\* the order of the adds.
C15_LoadedThenAdded ==
    instance = "ready" =>
        /\ Len(data) >= Len(loaded)
        /\ \A i \in 1..Len(loaded) : data[i].ID = loaded[i].ID
        /\ \A i \in (Len(loaded) + 1)..Len(data) : data[i].ID = i

C15_AddAppendsOne ==
    /\ []C15_LoadedThenAdded
    /\ [][(last'.op = "add" /\ last'.result = "Ok") =>
              \A record \in AddInputs :
                  add_record(record) =>
                      /\ Len(data') = Len(data) + 1
                      /\ \A i \in 1..Len(data) : data'[i] = data[i]
                      /\ data'[Len(data')].ID = next_id
                      /\ \A c \in DataColumnSet : data'[Len(data')][c] = record[c]
                      /\ next_id' = next_id + 1]_vars

\* A row was added behind a row loaded from records.csv.
C15_AddedBehindLoaded ==
    /\ last.op = "add"
    /\ last.result = "Ok"
    /\ Len(loaded) = 1
    /\ Len(data) = 2

----------------------------------------------------------------------------
(* C16. edit_record, however it ends, changes no ID, neither the number    *)
(* nor the order of the rows, no cell of a row other than the first row    *)
(* with the typed ID, no cell of that row for which nothing was typed, and *)
(* not next_id; when it ends with its success message, every cell of that  *)
(* row for which something was typed holds what was typed.                 *)

\* The row an edit of that ID is about: the first with that ID.
C16_Target(d, record_id) ==
    CHOOSE i \in 1..Len(d) :
        d[i].ID = record_id /\ \A j \in 1..(i - 1) : d[j].ID # record_id

C16_EditFrame ==
    [][last'.op = "edit" =>
          /\ Len(data') = Len(data)
          /\ \A i \in 1..Len(data) : data'[i].ID = data[i].ID
          /\ next_id' = next_id
          /\ last'.result = "NotFound" => data' = data
          /\ last'.result # "NotFound" =>
                LET target == C16_Target(data, typed'[1])
                    record == typed'[2]
                IN  /\ \A i \in 1..Len(data) : i # target => data'[i] = data[i]
                    /\ \A c \in DataColumnSet :
                          record[c] = <<>> => data'[target][c] = data[target][c]
                    /\ last'.result = "Ok" =>
                          \A c \in DataColumnSet :
                              record[c] # <<>> => data'[target][c] = record[c]]_vars

\* An edit of one of two rows ended with its success message after a text
\* was typed for one column and nothing for the others.
C16_OneCellOfTwoRows ==
    /\ last.op = "edit"
    /\ last.result = "Ok"
    /\ last.applied = 1
    /\ Len(data) = 2

----------------------------------------------------------------------------
(* C17. load is called exactly once, by the first Directory(); every later *)
(* Directory() returns the same instance with its table and next_id        *)
(* untouched. save is called exactly once by each add_record and           *)
(* edit_record that ends with its success message, and by no call but an   *)
(* add_record or edit_record that passed its checks: one that ended with   *)
(* its success message, or one whose save itself raised.                   *)

\* The calls during which save ran.
C17_Saved == last.saves > 0

C17_Protocol ==
    /\ [](loads = IF instance = "None" THEN 0 ELSE 1)
    /\ [](LastOk => last.saves = 1)
    /\ [](C17_Saved => /\ last.saves = 1
                       /\ last.op \in {"add", "edit"}
                       /\ last.result \in {"Ok", "Raised"})
    /\ [][/\ last'.op = "again" => UNCHANGED <<instance, data, next_id, file, loads>>
          /\ file' # file => last'.saves = 1
          /\ loads' # loads => (instance = "None" /\ last'.op = "new")]_vars

\* Directory() was called again after an add_record had saved a row.
C17_ConstructedAgainAfterSave ==
    /\ last.op = "again"
    /\ loads = 1
    /\ okAdds > 0
    /\ FileHolds(file, data)

(* C17 as the specification words it: save is called by no call other than *)
(* an add_record or edit_record that ends with its success message.        *)
C17_SaveOnlyByOk == C17_Saved => LastOk

----------------------------------------------------------------------------
(* C18. Between calls, next_id is the number of rows of the table plus     *)
(* one, whatever the calls and however each save ended, a caller that goes *)
(* on after an add_record whose save raised included.                      *)

C18_NextIdIsCountPlusOne ==
    instance = "ready" => next_id = Len(data) + 1
====
